---- MODULE Spec2Model ----
(***************************************************************************)
(* Model of src/Documentacion.cpp: a keypad-gated environmental monitor.   *)
(*                                                                         *)
(* The sketch is one polling loop.  Each iteration of loop() reads the     *)
(* keypad and runs the key handler (lines 162-203).  The switch on         *)
(* currentState that would call the monitoring handlers (lines 208-227)    *)
(* stands after the closing brace of loop(), outside every function: the   *)
(* program never calls the handlers.  They are modelled as functions       *)
(* called once each from drawn states; alarma() holds the processor in a   *)
(* blocking poll loop (lines 417-429).                                     *)
(*                                                                         *)
(* Every handler is a pure operator from a program-state record to a       *)
(* program-state record; the actions apply the operators to the variables. *)
(* Sensor values are floats in the source; they are kept here in tenths    *)
(* of a unit (25.0 C is 250), with NaN as a separate value for which every *)
(* comparison is false, as in IEEE arithmetic.  Time is in milliseconds.   *)
(***************************************************************************)
EXTENDS Integers, Sequences, FiniteSets, TLC

VARIABLES
    inputPassword,    \* String inputPassword: sequence of key characters
    attemptCount,     \* int attemptCount
    currentState,     \* int currentState: 0 locked, 1 ambiental, 2 eventos,
                      \*   3 alerta, 4 alarma, 5 infrarrojo, 6 hall
    stateChangeTime,  \* unsigned long stateChangeTime
    now,              \* value returned by millis()
    lcd,              \* the 16x2 display: rows of characters and the cursor
    ledRed,           \* level of LED_RED_PIN at the end of the step
    effects,          \* outputs pulsed inside the last step (tones, LED pulses)
    pc,               \* where the program is: "key" at keypad.getKey() in
                      \*   loop(); "call" before the call of a function,
                      \*   "alarma" inside the loop of alarma(), "done" once
                      \*   the function called has returned
    horizon           \* the time at which the model cuts the clock off; fixed
                      \*   by the initial state and never changed

vars == <<inputPassword, attemptCount, currentState, stateChangeTime, now,
          lcd, ledRed, effects, pc, horizon>>

---------------------------------------------------------------------------
(* Bounds of the model *)

\* the clock is cut off after this many half seconds; no step is taken that
\* would pass it
MaxHalfSeconds == 14

MaxTime == 500 * MaxHalfSeconds

\* the cut-off of the runs in which one handler is called
HandlerHalfSeconds == 20

MaxHandlerTime == 500 * HandlerHalfSeconds

\* the values of stateChangeTime, and of millis() - stateChangeTime, a
\* handler is called with: none, and the two sides of each interval
StartTimes == {0, 500}

ElapsedTimes == {0, 2999, 3000, 3999, 4000}

\* millis() is an unsigned long and wraps at 2^32; the clock of the model
\* wraps after this many half seconds.  The cut-offs above lie below it, so
\* the clock wraps only in the runs that have no cut-off.
WrapHalfSeconds == 40

MillisModulus == 500 * WrapHalfSeconds

\* time a loop iteration (or one alarm poll) may take before it reads millis()
Durations == {0, 1000}

\* the keys pressed in the model: the digits of the secret, a letter key,
\* submit and clear (a subset of the 4x4 keymap)
PressedKeys == {"0", "6", "9", "A", "#", "*"}

\* the value a failed sensor read returns; it is no number, and the comparison
\* operators below test for it before they compare
NaN == -1000000

\* temperature and humidity readings offered to the program, as <<t, h>>
\* in tenths: in range, the four inclusive corners, just outside each
\* limit, and a failed read
DhtReadings ==
    { <<250, 300>>, <<100, 50>>, <<400, 600>>,
      <<99, 300>>, <<401, 300>>, <<250, 49>>, <<250, 601>>,
      <<NaN, NaN>> }

\* illuminance values offered to the program, in tenths of a lux
LuxReadings == {1999, 2000, 7000, 7001}

\* levels of a digital input pin
PinLevels == {"HIGH", "LOW"}

---------------------------------------------------------------------------
(* Program constants *)

KEYS ==
    { "1", "2", "3", "A", "4", "5", "6", "B",
      "7", "8", "9", "C", "*", "0", "#", "D" }

NO_KEY == "NO_KEY"

CORRECT_PASSWORD == <<"0", "6", "9", "0">>

MAX_ATTEMPTS == 3

LCD_ROWS == 2

\* cells of display memory behind each row of the controller, of which
\* lcd.begin(16, 2) shows the first 16
LCD_CELLS == 40

\* delay(1000) after the welcome tone
WELCOME_DELAY == 1000

\* delay(2000) with the red LED on during the lockout
LOCKOUT_DELAY == 2000

\* delay(1000) with the blue LED on
PULSE_DELAY == 1000

\* millis() - stateChangeTime >= 4000 in monitoreoAmbiental
AMBIENTAL_INTERVAL == 4000

\* millis() - stateChangeTime >= 3000 in monitorEventos and alerta
EVENTOS_INTERVAL == 3000

\* limits of the safe range, in tenths
TEMP_MIN == 100
TEMP_MAX == 400
HUM_MIN == 50
HUM_MAX == 600
LUX_LOW == 2000
LUX_HIGH == 7000

TXT_INGRESE == <<"I","n","g","r","e","s","e"," ","l","a"," ","c","l","a","v","e",":">>
TXT_BIENVENIDO == <<"B","i","e","n","v","e","n","i","d","o">>
TXT_ERROR == <<"E","r","r","o","r"," ","i","n","t","e","n","t","o"," ">>
TXT_BLOQUEADO == <<"B","l","o","q","u","e","a","d","o">>
TXT_MONI_AMBIENTAL == <<"M","o","n","i"," ","A","m","b","i","e","n","t","a","l">>
TXT_T == <<"T",":">>
TXT_CH == <<"C"," ","H",":">>
TXT_MONI_EVENTOS == <<"M","o","n","i"," ","E","v","e","n","t","o","s">>
TXT_LUZ == <<"L","u","z"," ",":"," ">>
TXT_INFRARROJO == <<"I","n","f","r","a","r","r","o","j","o"," ","A","c","t","i","v","o">>
TXT_HALL == <<"H","a","l","l"," ","A","c","t","i","v","o">>
TXT_ALERTA == <<"A","l","e","r","t","a","!">>
TXT_LUZ_ALTA == <<"L","u","z",":"," ","A","l","t","a">>
TXT_LUZ_BAJA == <<"L","u","z",":"," ","B","a","j","a">>
TXT_CRITICA == <<"A","L","E","R","T","A"," ","C","R","I","T","I","C","A","!">>
TXT_FUERA == <<"T"," ","o"," ","H"," ","f","u","e","r","a"," ","d","e">>
TXT_RANGO == <<"r","a","n","g","o"," ","s","e","g","u","r","o","!">>
TXT_NAN == <<"n","a","n">>

---------------------------------------------------------------------------
(* Float comparisons: false whenever an operand is NaN *)

Lt(x, c) == x # NaN /\ x < c
Gt(x, c) == x # NaN /\ x > c
Ge(x, c) == x # NaN /\ x >= c
Le(x, c) == x # NaN /\ x <= c

---------------------------------------------------------------------------
(* Printing numbers: Print::print(int) and Print::print(double, 2) *)

DigitChar(d) == <<"0","1","2","3","4","5","6","7","8","9">>[d + 1]

RECURSIVE PrintInt(_)
PrintInt(n) ==
    IF n < 0 THEN <<"-">> \o PrintInt(-n)
    ELSE IF n < 10 THEN <<DigitChar(n)>>
    ELSE PrintInt(n \div 10) \o <<DigitChar(n % 10)>>

\* x is in tenths; two decimals are printed
PrintFloat(x) ==
    IF x = NaN THEN TXT_NAN
    ELSE LET a == IF x < 0 THEN -x ELSE x
         IN  (IF x < 0 THEN <<"-">> ELSE <<>>)
             \o PrintInt(a \div 10) \o <<".", DigitChar(a % 10), "0">>

---------------------------------------------------------------------------
(* The display *)

LcdBlank == [rows |-> <<<<>>, <<>>>>, col |-> 0, row |-> 0]

LcdClear(l) == LcdBlank

\* a row beyond the last one is clamped to the last row
LcdSetCursor(l, c, r) ==
    [l EXCEPT !.col = c, !.row = IF r >= LCD_ROWS THEN LCD_ROWS - 1 ELSE r]

\* the character that print(txt), started at cell `start`, leaves in the cell
\* at distance `offset` from it: the last one written there
LastWritten(txt, offset, cells) ==
    txt[offset + cells * ((Len(txt) - 1 - offset) \div cells) + 1]

\* txt written over a row from cell col on, the cells before it blank if
\* the row was shorter
Overwrite(line, col, txt) ==
    LET n == IF Len(line) > col + Len(txt) THEN Len(line) ELSE col + Len(txt)
    IN  [i \in 1..n |->
            IF i > col /\ i <= col + Len(txt) THEN txt[i - col]
            ELSE IF i <= Len(line) THEN line[i]
            ELSE " "]

\* print(txt) that runs past the last cell of a row: cell by cell over the
\* LCD_ROWS * LCD_CELLS cells, taken cyclically
LcdPrintWrapped(v, x) ==
    LET cells == LCD_ROWS * LCD_CELLS
        start == v.row * LCD_CELLS + v.col
        Offset(r, c) == ((r - 1) * LCD_CELLS + (c - 1) - start) % cells
        Hit(r, c) == Offset(r, c) < Len(x)
        Width(r) ==
            LET ws == {c \in 1..LCD_CELLS : Hit(r, c)} \cup {Len(v.rows[r])}
            IN  CHOOSE m \in ws : \A c \in ws : c <= m
        stop == (start + Len(x)) % cells
    IN  [rows |-> [r \in 1..LCD_ROWS |->
                     [c \in 1..Width(r) |->
                         IF Hit(r, c)
                         THEN LastWritten(x, Offset(r, c), cells)
                         ELSE IF c <= Len(v.rows[r]) THEN v.rows[r][c]
                         ELSE " "]],
         col |-> stop % LCD_CELLS,
         row |-> stop \div LCD_CELLS]

\* LiquidCrystal::print: the characters go to the cell under the cursor and
\* the cursor moves one cell right; after cell LCD_CELLS - 1 of a row it
\* continues at cell 0 of the other row.  A row is kept up to its last
\* written cell.
\* (the display and the text are evaluated once, then written)
LcdPrint(l, txt) ==
    LET Written(v, x) ==
            IF v.col + Len(x) < LCD_CELLS
            THEN [v EXCEPT !.rows[v.row + 1] = Overwrite(@, v.col, x),
                           !.col = @ + Len(x)]
            ELSE LcdPrintWrapped(v, x)
    IN  CHOOSE w \in {Written(v, x) : v \in {l}, x \in {txt}} : TRUE

\* getAsterisks(length)
RECURSIVE getAsterisks(_)
getAsterisks(length) ==
    IF length <= 0 THEN <<>> ELSE getAsterisks(length - 1) \o <<"*">>

---------------------------------------------------------------------------
(* Sounds: the time each blocks for *)

\* alarmSound(): 5 x (250 ms + 250 ms)
AlarmSoundTime == 5 * (250 + 250)

\* welcomeTone(): 3 x 500 ms
WelcomeToneTime == 3 * 500

---------------------------------------------------------------------------
(* The program state as a record, and the handlers as operators on it *)

\* millis() - stateChangeTime, in unsigned arithmetic
Elapsed(s) == (s.millis - s.stateChangeTime) % MillisModulus

State ==
    [ inputPassword   |-> inputPassword,
      attemptCount    |-> attemptCount,
      currentState    |-> currentState,
      stateChangeTime |-> stateChangeTime,
      millis          |-> now,
      lcd             |-> lcd,
      ledRed          |-> ledRed,
      effects         |-> {} ]

\* reset() with the counter left as it is
resetKeepsCount(s) ==
    [s EXCEPT !.inputPassword = <<>>,
              !.lcd = LcdPrint(LcdClear(@), TXT_INGRESE)]

\* reset() that also goes back to the locked state
resetRelocks(s) ==
    [s EXCEPT !.inputPassword = <<>>,
              !.attemptCount = 0,
              !.currentState = 0,
              !.lcd = LcdPrint(LcdClear(@), TXT_INGRESE)]

\* reset()
reset(s) ==
    [s EXCEPT !.inputPassword = <<>>,
              !.attemptCount = 0,
              !.lcd = LcdPrint(LcdClear(@), TXT_INGRESE)]

\* the unlock with stateChangeTime left as it is
unlockStaleTimer(s) ==
    LET t == s.millis + WelcomeToneTime + WELCOME_DELAY
    IN  [s EXCEPT !.lcd = LcdPrint(LcdClear(@), TXT_BIENVENIDO),
                  !.effects = {"ledGreen", "welcomeTone"},
                  !.millis = t,
                  !.currentState = 1]

\* key == '#' with the right password: the welcome and the change of state
unlock(s) ==
    LET t == s.millis + WelcomeToneTime + WELCOME_DELAY
    IN  [s EXCEPT !.lcd = LcdPrint(LcdClear(@), TXT_BIENVENIDO),
                  !.effects = {"ledGreen", "welcomeTone"},
                  !.millis = t,
                  !.currentState = 1,
                  !.stateChangeTime = t]

\* the failed attempt with inputPassword left as it is
failedAttemptKeepsInput(s) ==
    LET n  == s.attemptCount + 1
        s1 == [s EXCEPT !.attemptCount = n,
                        !.lcd = LcdPrint(LcdPrint(LcdClear(@), TXT_ERROR),
                                         PrintInt(n))]
    IN  IF n >= MAX_ATTEMPTS
        THEN [s1 EXCEPT
                !.inputPassword = <<>>,
                !.attemptCount = 0,
                !.lcd = LcdPrint(LcdClear(@), TXT_INGRESE),
                !.effects = {"alarmSound", "ledRed"},
                !.ledRed = "LOW",
                !.millis = @ + AlarmSoundTime + LOCKOUT_DELAY]
        ELSE s1

\* the failed attempt with the lockout only past MAX_ATTEMPTS
failedAttemptStrict(s) ==
    LET n  == s.attemptCount + 1
        s1 == [s EXCEPT !.attemptCount = n,
                        !.lcd = LcdPrint(LcdPrint(LcdClear(@), TXT_ERROR),
                                         PrintInt(n)),
                        !.inputPassword = <<>>]
    IN  IF n > MAX_ATTEMPTS
        THEN reset([s1 EXCEPT
                !.lcd = LcdPrint(LcdClear(@), TXT_BLOQUEADO),
                !.effects = {"alarmSound", "ledRed"},
                !.ledRed = "LOW",
                !.millis = @ + AlarmSoundTime + LOCKOUT_DELAY])
        ELSE s1

\* key == '#' otherwise: the failed attempt and, at MAX_ATTEMPTS, the lockout
failedAttempt(s) ==
    LET n  == s.attemptCount + 1
        s1 == [s EXCEPT !.attemptCount = n,
                        !.lcd = LcdPrint(LcdPrint(LcdClear(@), TXT_ERROR),
                                         PrintInt(n)),
                        !.inputPassword = <<>>]
    IN  IF n >= MAX_ATTEMPTS
        THEN reset([s1 EXCEPT
                !.lcd = LcdPrint(LcdClear(@), TXT_BLOQUEADO),
                !.effects = {"alarmSound", "ledRed"},
                !.ledRed = "LOW",
                !.millis = @ + AlarmSoundTime + LOCKOUT_DELAY])
        ELSE s1

\* '#' ignored while fewer than 4 characters have been typed
onSubmitIgnoresShort(s) ==
    IF Len(s.inputPassword) < 4
    THEN s
    ELSE IF s.inputPassword = CORRECT_PASSWORD
    THEN unlock(s)
    ELSE failedAttempt(s)

\* key == '#'
onSubmit(s) ==
    IF Len(s.inputPassword) = 4 /\ s.inputPassword = CORRECT_PASSWORD
    THEN unlock(s)
    ELSE failedAttempt(s)

\* the clear that also zeroes the counter, as reset() does
onClearResetsCount(s) ==
    [s EXCEPT !.inputPassword = <<>>,
              !.attemptCount = 0,
              !.lcd = LcdPrint(LcdClear(@), TXT_INGRESE)]

\* key == '*'
onClear(s) ==
    [s EXCEPT !.inputPassword = <<>>,
              !.lcd = LcdPrint(LcdClear(@), TXT_INGRESE)]

\* the digit handler with <= 4 for < 4
onDigitOffByOne(s, key) ==
    IF Len(s.inputPassword) <= 4
    THEN LET p == s.inputPassword \o <<key>>
         IN  [s EXCEPT !.inputPassword = p,
                       !.lcd = LcdPrint(LcdSetCursor(@, 0, 1),
                                        getAsterisks(Len(p)))]
    ELSE s

\* the digit handler printing the asterisks before the key is appended
onDigitStaleMask(s, key) ==
    IF Len(s.inputPassword) < 4
    THEN LET p == s.inputPassword \o <<key>>
         IN  [s EXCEPT !.inputPassword = p,
                       !.lcd = LcdPrint(LcdSetCursor(@, 0, 1),
                                        getAsterisks(Len(s.inputPassword)))]
    ELSE s

\* any other key
onDigit(s, key) ==
    IF Len(s.inputPassword) < 4
    THEN LET p == s.inputPassword \o <<key>>
         IN  [s EXCEPT !.inputPassword = p,
                       !.lcd = LcdPrint(LcdSetCursor(@, 0, 1),
                                        getAsterisks(Len(p)))]
    ELSE s

\* the key handler of loop(): if (key) { ... }
loopKey(s, key) ==
    IF key = NO_KEY THEN s
    ELSE IF key = "#" THEN onSubmit(s)
    ELSE IF key = "*" THEN onClear(s)
    ELSE onDigit(s, key)

\* what monitoreoAmbiental() prints and sets when it moves on to eventos
ambientalShown(s, t, h) ==
    [s EXCEPT
        !.lcd = LcdPrint(LcdPrint(LcdPrint(LcdPrint(
                    LcdSetCursor(LcdPrint(LcdClear(@), TXT_MONI_AMBIENTAL), 0, 1),
                    TXT_T), PrintFloat(t)), TXT_CH), PrintFloat(h)),
        !.currentState = 2,
        !.stateChangeTime = s.millis]

\* monitoreoAmbiental() with > 4000 for >= 4000
monitoreoAmbientalStrict(s, t, h) ==
    IF Lt(t, TEMP_MIN) \/ Gt(t, TEMP_MAX) \/ Lt(h, HUM_MIN) \/ Gt(h, HUM_MAX)
    THEN [s EXCEPT !.currentState = 4, !.stateChangeTime = s.millis]
    ELSE IF Elapsed(s) > AMBIENTAL_INTERVAL
    THEN ambientalShown(s, t, h)
    ELSE s

\* monitoreoAmbiental() with the range test made only once the interval is over
monitoreoAmbientalDebounced(s, t, h) ==
    IF Elapsed(s) >= AMBIENTAL_INTERVAL
    THEN IF Lt(t, TEMP_MIN) \/ Gt(t, TEMP_MAX) \/ Lt(h, HUM_MIN) \/ Gt(h, HUM_MAX)
         THEN [s EXCEPT !.currentState = 4, !.stateChangeTime = s.millis]
         ELSE ambientalShown(s, t, h)
    ELSE s

\* monitoreoAmbiental()
monitoreoAmbiental(s, t, h) ==
    IF Lt(t, TEMP_MIN) \/ Gt(t, TEMP_MAX) \/ Lt(h, HUM_MIN) \/ Gt(h, HUM_MAX)
    THEN [s EXCEPT !.currentState = 4, !.stateChangeTime = s.millis]
    ELSE IF Elapsed(s) >= AMBIENTAL_INTERVAL
    THEN ambientalShown(s, t, h)
    ELSE s

\* monitorEventos() with the two limits taken as abnormal
monitorEventosInclusive(s, lux) ==
    IF Elapsed(s) >= EVENTOS_INTERVAL
    THEN LET s1 == [s EXCEPT
                      !.lcd = LcdPrint(LcdPrint(
                                LcdSetCursor(LcdPrint(LcdClear(@), TXT_MONI_EVENTOS), 0, 1),
                                TXT_LUZ), PrintFloat(lux))]
         IN  IF Ge(lux, LUX_HIGH) \/ Le(lux, LUX_LOW)
             THEN [s1 EXCEPT !.currentState = 3, !.stateChangeTime = s.millis]
             ELSE [s1 EXCEPT !.currentState = 1, !.stateChangeTime = s.millis]
    ELSE s

\* monitorEventos() going back to ambiental without stateChangeTime = millis()
monitorEventosStaleTimer(s, lux) ==
    IF Elapsed(s) >= EVENTOS_INTERVAL
    THEN LET s1 == [s EXCEPT
                      !.lcd = LcdPrint(LcdPrint(
                                LcdSetCursor(LcdPrint(LcdClear(@), TXT_MONI_EVENTOS), 0, 1),
                                TXT_LUZ), PrintFloat(lux))]
         IN  IF Gt(lux, LUX_HIGH) \/ Lt(lux, LUX_LOW)
             THEN [s1 EXCEPT !.currentState = 3, !.stateChangeTime = s.millis]
             ELSE [s1 EXCEPT !.currentState = 1]
    ELSE s

\* monitorEventos()
monitorEventos(s, lux) ==
    IF Elapsed(s) >= EVENTOS_INTERVAL
    THEN LET s1 == [s EXCEPT
                      !.lcd = LcdPrint(LcdPrint(
                                LcdSetCursor(LcdPrint(LcdClear(@), TXT_MONI_EVENTOS), 0, 1),
                                TXT_LUZ), PrintFloat(lux))]
         IN  IF Gt(lux, LUX_HIGH) \/ Lt(lux, LUX_LOW)
             THEN [s1 EXCEPT !.currentState = 3, !.stateChangeTime = s.millis]
             ELSE [s1 EXCEPT !.currentState = 1, !.stateChangeTime = s.millis]
    ELSE s

\* monitoreoInfrarrojo()
monitoreoInfrarrojo(s, pin) ==
    IF pin = "HIGH"
    THEN LET t == s.millis + AlarmSoundTime + PULSE_DELAY
         IN  [s EXCEPT !.lcd = LcdPrint(LcdClear(@), TXT_INFRARROJO),
                       !.effects = {"ledBlue", "alarmSound"},
                       !.millis = t,
                       !.currentState = 2,
                       !.stateChangeTime = t]
    ELSE s

\* monitoreoHall()
monitoreoHall(s, pin) ==
    IF pin = "HIGH"
    THEN LET t == s.millis + AlarmSoundTime + PULSE_DELAY
         IN  [s EXCEPT !.lcd = LcdPrint(LcdClear(@), TXT_HALL),
                       !.effects = {"ledBlue", "alarmSound"},
                       !.millis = t,
                       !.currentState = 2,
                       !.stateChangeTime = t]
    ELSE s

\* alerta() without its else-if branch for low light
alertaHighOnly(s, lux) ==
    IF Elapsed(s) >= EVENTOS_INTERVAL
    THEN LET l0 == LcdSetCursor(LcdPrint(LcdClear(s.lcd), TXT_ALERTA), 0, 1)
             s1 == IF Gt(lux, LUX_HIGH)
                   THEN [s EXCEPT !.lcd = LcdPrint(l0, TXT_LUZ_ALTA),
                                  !.effects = {"ledBlue", "alarmSound"},
                                  !.millis = @ + AlarmSoundTime + PULSE_DELAY]
                   ELSE [s EXCEPT !.lcd = l0]
         IN  [s1 EXCEPT !.currentState = 2, !.stateChangeTime = s1.millis]
    ELSE s

\* alerta() moving on to the infrared monitor instead of back to eventos
alertaToInfrarrojo(s, lux) ==
    IF Elapsed(s) >= EVENTOS_INTERVAL
    THEN LET l0 == LcdSetCursor(LcdPrint(LcdClear(s.lcd), TXT_ALERTA), 0, 1)
             s1 == IF Gt(lux, LUX_HIGH)
                   THEN [s EXCEPT !.lcd = LcdPrint(l0, TXT_LUZ_ALTA),
                                  !.effects = {"ledBlue", "alarmSound"},
                                  !.millis = @ + AlarmSoundTime + PULSE_DELAY]
                   ELSE IF Lt(lux, LUX_LOW)
                   THEN [s EXCEPT !.lcd = LcdPrint(l0, TXT_LUZ_BAJA),
                                  !.effects = {"ledBlue", "alarmSound"},
                                  !.millis = @ + AlarmSoundTime + PULSE_DELAY]
                   ELSE [s EXCEPT !.lcd = l0]
         IN  [s1 EXCEPT !.currentState = 5, !.stateChangeTime = s1.millis]
    ELSE s

\* alerta()
alerta(s, lux) ==
    IF Elapsed(s) >= EVENTOS_INTERVAL
    THEN LET l0 == LcdSetCursor(LcdPrint(LcdClear(s.lcd), TXT_ALERTA), 0, 1)
             s1 == IF Gt(lux, LUX_HIGH)
                   THEN [s EXCEPT !.lcd = LcdPrint(l0, TXT_LUZ_ALTA),
                                  !.effects = {"ledBlue", "alarmSound"},
                                  !.millis = @ + AlarmSoundTime + PULSE_DELAY]
                   ELSE IF Lt(lux, LUX_LOW)
                   THEN [s EXCEPT !.lcd = LcdPrint(l0, TXT_LUZ_BAJA),
                                  !.effects = {"ledBlue", "alarmSound"},
                                  !.millis = @ + AlarmSoundTime + PULSE_DELAY]
                   ELSE [s EXCEPT !.lcd = l0]
         IN  [s1 EXCEPT !.currentState = 2, !.stateChangeTime = s1.millis]
    ELSE s

\* alarma(), up to the entry of its while (true) loop
alarmaEnter(s) ==
    [s EXCEPT
        !.ledRed = "HIGH",
        !.effects = {"alarmSound"},
        !.millis = @ + AlarmSoundTime,
        !.lcd = LcdPrint(LcdSetCursor(
                    LcdPrint(LcdSetCursor(
                        LcdPrint(LcdClear(@), TXT_CRITICA), 0, 1),
                        TXT_FUERA), 0, 2),
                    TXT_RANGO)]

\* the test of the loop of alarma() made on the temperature alone
alarmaResolvedTempOnly(t, h) ==
    Ge(t, TEMP_MIN) /\ Le(t, TEMP_MAX)

\* the test inside the while (true) loop of alarma()
alarmaResolved(t, h) ==
    Ge(t, TEMP_MIN) /\ Le(t, TEMP_MAX) /\ Ge(h, HUM_MIN) /\ Le(h, HUM_MAX)

\* the break of the loop of alarma() followed by a reset()
alarmaLeaveResets(s) ==
    reset([s EXCEPT !.ledRed = "LOW",
                    !.currentState = 1,
                    !.stateChangeTime = s.millis])

\* the break of the loop of alarma() with the red LED left on
alarmaLeaveLedOn(s) ==
    [s EXCEPT !.currentState = 1,
              !.stateChangeTime = s.millis]

\* one iteration of the while (true) loop of alarma(), when it breaks
alarmaLeave(s) ==
    [s EXCEPT !.ledRed = "LOW",
              !.currentState = 1,
              !.stateChangeTime = s.millis]

---------------------------------------------------------------------------
(* The state machine *)

\* millis() after d more milliseconds
Advance(s, d) == [s EXCEPT !.millis = @ + d]

Becomes(r, p) ==
    /\ r.millis <= horizon
    /\ inputPassword' = r.inputPassword
    /\ attemptCount' = r.attemptCount
    /\ currentState' = r.currentState
    /\ stateChangeTime' = r.stateChangeTime % MillisModulus
    /\ now' = r.millis % MillisModulus
    /\ lcd' = r.lcd
    /\ ledRed' = r.ledRed
    /\ effects' = r.effects
    /\ pc' = p
    /\ horizon' = horizon

\* setup() and the initial values of the globals
Booted ==
    /\ inputPassword = <<>>
    /\ attemptCount = 0
    /\ currentState = 0
    /\ stateChangeTime = 0
    /\ now = 0
    /\ lcd = LcdPrint(LcdBlank, TXT_INGRESE)
    /\ ledRed = "LOW"
    /\ effects = {}
    /\ pc = "key"

Init == Booted /\ horizon = MaxTime

\* One iteration of loop(): keypad.getKey() returns key after d ms, and the
\* key handler runs.  loop() ends there (line 204): the switch on
\* currentState that follows it in the file (lines 208-227) is outside the
\* function, so an iteration calls no monitoring handler.
KeyOf(key, d) ==
    /\ pc = "key"
    /\ Becomes(loopKey(Advance(State, d), key), "key")

KeyStep == \E key \in PressedKeys \cup {NO_KEY}, d \in Durations : KeyOf(key, d)

Next == KeyStep

Spec == Init /\ [][Next]_vars

\* The runs in which the user types the secret and nothing else: the next
\* character of the secret while inputPassword is a proper prefix of it, and
\* '#' once it is the secret (inputPassword is kept by the unlock branch, so
\* '#' stays on offer afterwards).
SecretKeys ==
    IF inputPassword = CORRECT_PASSWORD THEN {"#"}
    ELSE IF /\ Len(inputPassword) < Len(CORRECT_PASSWORD)
            /\ inputPassword = SubSeq(CORRECT_PASSWORD, 1, Len(inputPassword))
         THEN {CORRECT_PASSWORD[Len(inputPassword) + 1]}
         ELSE {}

SecretKeyStep == \E key \in SecretKeys \cup {NO_KEY}, d \in Durations : KeyOf(key, d)

NextLive == SecretKeyStep

\* The same runs with no cut-off: the clock wraps.  loop() runs for ever and
\* millis() keeps growing, so an iteration that takes time comes again and
\* again.
NoHorizon == 2 * MillisModulus

InitLive == Booted /\ horizon = NoHorizon

TimePasses == \E key \in SecretKeys \cup {NO_KEY}, d \in Durations \ {0} : KeyOf(key, d)

SpecLive ==
    /\ InitLive
    /\ [][NextLive]_vars
    /\ WF_vars(TimePasses)

---------------------------------------------------------------------------
(* The functions of the file, each called once *)

\* No function of the program calls the monitoring handlers, so what they do
\* is seen by calling them: from each state drawn below one function is
\* called once, and it runs until it returns.  The handler of a state is
\* called in that state (case k of the switch names the handler of state k);
\* loop() is called in any state.

\* The arguments of the call: a value for each global the functions read.
\* They are drawn, not computed: currentState over 0 and the values the cases
\* name, inputPassword and attemptCount over the values the key handler
\* leaves, the clock at each of ElapsedTimes after stateChangeTime.  Most of
\* these states are reached by no run of the program (its runs are those of
\* Spec, in which currentState is 0 or 1), so what is checked from them is
\* what a function does in one call, for every argument; nothing here says
\* that the program gets there.
InitHandlers ==
    /\ inputPassword \in {<<>>, CORRECT_PASSWORD}
    /\ attemptCount \in {0, 1, 2}
    /\ currentState \in 0..6
    /\ stateChangeTime \in StartTimes
    /\ now \in {stateChangeTime + e : e \in ElapsedTimes}
    /\ lcd = LcdPrint(LcdBlank, TXT_BIENVENIDO)
    /\ ledRed \in PinLevels
    /\ effects = {}
    /\ pc = "call"
    /\ horizon = MaxHandlerTime

\* loop()
LoopOf(key, d) ==
    /\ pc = "call"
    /\ Becomes(loopKey(Advance(State, d), key), "done")

LoopCalled == \E key \in PressedKeys \cup {NO_KEY}, d \in Durations : LoopOf(key, d)

\* the handlers; each draws the reading of the sensor it polls
AmbientalOf(t, h) ==
    /\ pc = "call"
    /\ currentState = 1
    /\ Becomes(monitoreoAmbiental(State, t, h), "done")

AmbientalCalled == \E r \in DhtReadings : AmbientalOf(r[1], r[2])

EventosOf(lux) ==
    /\ pc = "call"
    /\ currentState = 2
    /\ Becomes(monitorEventos(State, lux), "done")

EventosCalled == \E lux \in LuxReadings : EventosOf(lux)

AlertaOf(lux) ==
    /\ pc = "call"
    /\ currentState = 3
    /\ Becomes(alerta(State, lux), "done")

AlertaCalled == \E lux \in LuxReadings : AlertaOf(lux)

AlarmaEnter ==
    /\ pc = "call"
    /\ currentState = 4
    /\ Becomes(alarmaEnter(State), "alarma")

InfrarrojoOf(pin) ==
    /\ pc = "call"
    /\ currentState = 5
    /\ Becomes(monitoreoInfrarrojo(State, pin), "done")

InfrarrojoCalled == \E pin \in PinLevels : InfrarrojoOf(pin)

HallOf(pin) ==
    /\ pc = "call"
    /\ currentState = 6
    /\ Becomes(monitoreoHall(State, pin), "done")

HallCalled == \E pin \in PinLevels : HallOf(pin)

\* one iteration of the blocking loop of alarma(), taking d ms
AlarmaPollOf(t, h, d) ==
    /\ pc = "alarma"
    /\ IF alarmaResolved(t, h)
       THEN Becomes(alarmaLeave(Advance(State, d)), "done")
       ELSE Becomes(Advance(State, d), "alarma")

AlarmaPoll == \E r \in DhtReadings, d \in Durations : AlarmaPollOf(r[1], r[2], d)

NextHandlers ==
    \/ LoopCalled
    \/ AmbientalCalled
    \/ EventosCalled
    \/ AlertaCalled
    \/ AlarmaEnter
    \/ InfrarrojoCalled
    \/ HallCalled
    \/ AlarmaPoll

\* the loop of alarma() is a while (true): once entered it keeps polling
SpecHandlers ==
    /\ InitHandlers
    /\ [][NextHandlers]_vars
    /\ WF_vars(AlarmaPoll)

TypeOK ==
    /\ inputPassword \in Seq(KEYS)
    /\ attemptCount \in Nat
    /\ currentState \in 0..6
    /\ stateChangeTime \in 0..(MillisModulus - 1)
    /\ now \in 0..(MillisModulus - 1)
    /\ ledRed \in PinLevels
    /\ pc \in {"key", "call", "alarma", "done"}
    /\ horizon \in {MaxTime, MaxHandlerTime, NoHorizon}

---------------------------------------------------------------------------
(* Steps of the program, as predicates on a pair of states *)

\* the key handler runs on key, in an iteration of loop()
KeyPressed(key) == \E d \in Durations : KeyOf(key, d)

\* a reading that satisfies / fails the safe range (a NaN does neither)
InRange(t, h) ==
    /\ t # NaN /\ TEMP_MIN <= t /\ t <= TEMP_MAX
    /\ h # NaN /\ HUM_MIN <= h /\ h <= HUM_MAX

OutOfRange(t, h) ==
    \/ (t # NaN /\ (t < TEMP_MIN \/ t > TEMP_MAX))
    \/ (h # NaN /\ (h < HUM_MIN \/ h > HUM_MAX))

\* monitoreoAmbiental() runs on such a reading
AmbientalInRange == \E r \in DhtReadings : InRange(r[1], r[2]) /\ AmbientalOf(r[1], r[2])

AmbientalOutOfRange ==
    \E r \in DhtReadings : OutOfRange(r[1], r[2]) /\ AmbientalOf(r[1], r[2])

---------------------------------------------------------------------------
(* Claims *)

\* C1: while locked, submitting ('#') with inputPassword equal to the secret
\* "0690" sets currentState to 1 (ambiental) and stateChangeTime to the
\* current millis(), and leaves attemptCount as it was.
C1_SubmitSecretUnlocks ==
    [][ ( /\ currentState = 0
          /\ Len(inputPassword) = 4
          /\ inputPassword = <<"0", "6", "9", "0">>
          /\ KeyPressed("#") )
        => ( /\ currentState' = 1
             /\ stateChangeTime' = now'
             /\ attemptCount' = attemptCount ) ]_vars

\* the state the first unlock leaves: the welcome has just sounded and the
\* clock shows the welcome's duration only, so it was entered from locked
C1_Witness ==
    /\ pc = "key"
    /\ currentState = 1
    /\ "welcomeTone" \in effects
    /\ now = 2500
    /\ stateChangeTime = now

\* C2: in every state where currentState is not 0 (locked), inputPassword is
\* empty.
C2_SessionClearedWhenUnlocked ==
    currentState # 0 => inputPassword = <<>>

\* C3: while locked, submitting a 4-character inputPassword that differs from
\* the secret with attemptCount + 1 < 3 increments attemptCount by
\* exactly 1, empties inputPassword and stays locked.
C3_FailedSubmitCounts ==
    [][ ( /\ currentState = 0
          /\ Len(inputPassword) = 4
          /\ inputPassword # <<"0", "6", "9", "0">>
          /\ attemptCount + 1 < 3
          /\ KeyPressed("#") )
        => ( /\ attemptCount' = attemptCount + 1
             /\ inputPassword' = <<>>
             /\ currentState' = 0 ) ]_vars

\* a locked state holding a wrong 4-character password after one failure, in
\* which '#' can be pressed
C3_Witness ==
    /\ pc = "key"
    /\ currentState = 0
    /\ Len(inputPassword) = 4
    /\ inputPassword # <<"0", "6", "9", "0">>
    /\ attemptCount = 1
    /\ ENABLED KeyPressed("#")

\* C4: while locked, a failed submission runs the lockout exactly when it is
\* the third since attemptCount was 0; the lockout leaves
\* attemptCount = 0, inputPassword empty and the state locked; and in every
\* locked state, after a lockout too, submitting the secret unlocks.
C4_LockoutResetsAndIsNotTerminal ==
    [][ /\ ( ( /\ currentState = 0
               /\ inputPassword # <<"0", "6", "9", "0">>
               /\ KeyPressed("#") )
             => ( /\ ("alarmSound" \in effects') <=> (attemptCount = 2)
                  /\ currentState' = 0
                  /\ inputPassword' = <<>>
                  /\ (attemptCount = 2 => attemptCount' = 0)
                  /\ (attemptCount < 2
                        => attemptCount' = attemptCount + 1) ) )
        /\ ( ( /\ currentState = 0
               /\ attemptCount = 0
               /\ inputPassword = <<"0", "6", "9", "0">>
               /\ KeyPressed("#") )
             => currentState' = 1 ) ]_vars

\* the state a lockout leaves while locked
C4_Witness ==
    /\ pc = "key"
    /\ currentState = 0
    /\ effects = {"alarmSound", "ledRed"}
    /\ attemptCount = 0
    /\ inputPassword = <<>>
    /\ lcd.rows[1] = TXT_INGRESE

\* C5: inputPassword never has more than 4 characters, and a digit pressed
\* when it has 4 leaves it unchanged.
C5_AtMostFourDigits ==
    /\ [](Len(inputPassword) <= 4)
    /\ [][ \A k \in PressedKeys \ {"#", "*"} :
             (Len(inputPassword) = 4 /\ KeyPressed(k))
                => inputPassword' = inputPassword ]_vars

\* a full inputPassword, with a further digit about to be handled
C5_Witness ==
    /\ pc = "key"
    /\ Len(inputPassword) = 4
    /\ ENABLED KeyPressed("0")

\* C6: while locked, clear ('*') empties inputPassword and leaves attemptCount
\* and currentState unchanged, and clearing what a clear has left changes
\* nothing more.
C6_ClearIsIdempotent ==
    /\ [][ (currentState = 0 /\ KeyPressed("*"))
            => ( /\ inputPassword' = <<>>
                 /\ attemptCount' = attemptCount
                 /\ currentState' = currentState ) ]_vars
    /\ [](currentState = 0
            => loopKey(loopKey(State, "*"), "*") = loopKey(State, "*"))

\* a locked state with digits entered and a failed attempt counted, in which
\* '*' can be pressed
C6_Witness ==
    /\ pc = "key"
    /\ currentState = 0
    /\ inputPassword # <<>>
    /\ attemptCount > 0
    /\ ENABLED KeyPressed("*")

\* C7: in a state where currentState is not 0 (locked), a key event leaves
\* inputPassword, attemptCount, currentState and stateChangeTime unchanged.
C7_GateOnlyWhileLocked ==
    [][ (currentState # 0 /\ \E k \in PressedKeys : KeyPressed(k))
        => UNCHANGED <<inputPassword, attemptCount, currentState,
                       stateChangeTime>> ]_vars

\* C8: while locked, a key A, B, C or D leaves inputPassword, attemptCount,
\* currentState and the second display line unchanged.
C8_LetterKeysIgnored ==
    [][ (currentState = 0 /\ \E k \in PressedKeys \cap {"A", "B", "C", "D"} :
                                KeyPressed(k))
        => ( /\ UNCHANGED <<inputPassword, attemptCount, currentState>>
             /\ lcd'.rows[2] = lcd.rows[2] ) ]_vars

\* C9: in state 1 (ambiental), a call of monitoreoAmbiental() whose reading
\* is in range never leads
\* to state 4 (alarma); it stays in state 1 while fewer than 4000 ms have
\* passed since stateChangeTime, and with 4000 ms or more it leads to state 2
\* (eventos) with stateChangeTime set to the current millis().
C9_AmbientalInRange ==
    [][ AmbientalInRange
        => ( /\ currentState' # 4
             /\ (now - stateChangeTime < 4000
                    => currentState' = 1 /\ stateChangeTime' = stateChangeTime)
             /\ (now - stateChangeTime >= 4000
                    => currentState' = 2 /\ stateChangeTime' = now') ) ]_vars

\* the state the change to eventos leaves after an in-range reading of
\* 25.0 C and 30.0 %, polled exactly 4000 ms after stateChangeTime: the
\* display shows the reading just printed
C9_Witness ==
    /\ pc = "done"
    /\ currentState = 2
    /\ stateChangeTime = now
    /\ now = 4000
    /\ lcd.rows[1] = TXT_MONI_AMBIENTAL
    /\ lcd.rows[2] = TXT_T \o PrintFloat(250) \o TXT_CH \o PrintFloat(300)

\* C10: in state 1 (ambiental), a call of monitoreoAmbiental() whose reading
\* has temp < 10 or
\* temp > 40 or humidity < 5 or humidity > 60 leads to state 4 (alarma) in
\* that step, whatever time has passed since stateChangeTime, and never to
\* state 2 (eventos).
C10_AmbientalOutOfRange ==
    [][ AmbientalOutOfRange
        => (currentState' = 4 /\ stateChangeTime' = now') ]_vars

\* state 4 set by monitoreoAmbiental() 2999 ms after stateChangeTime, before
\* the interval was over
C10_Witness ==
    /\ pc = "done"
    /\ currentState = 4
    /\ stateChangeTime = now
    /\ now = 2999

\* C11: in state 2 (eventos) a call of monitorEventos() made less than 3000 ms after
\* stateChangeTime changes neither the state nor stateChangeTime; a poll made
\* 3000 ms or more after it leads to state 3 (alerta) when lux > 700 or
\* lux < 200 and to state 1 (ambiental) otherwise, the limits 200 and 700
\* included.  (lux is in tenths.)
C11_EventosAfterThreeSeconds ==
    [][ \A lux \in LuxReadings :
          EventosOf(lux)
          => IF now - stateChangeTime < 3000
             THEN currentState' = 2 /\ stateChangeTime' = stateChangeTime
             ELSE IF lux > 7000 \/ lux < 2000
             THEN currentState' = 3
             ELSE currentState' = 1 ]_vars

\* back in ambiental from eventos on a light level of exactly 700, polled
\* exactly 3000 ms after stateChangeTime
C11_Witness ==
    /\ pc = "done"
    /\ currentState = 1
    /\ stateChangeTime = now
    /\ now = 3000
    /\ lcd.rows[1] = TXT_MONI_EVENTOS
    /\ lcd.rows[2] = TXT_LUZ \o PrintFloat(7000)

\* C12: in state 3 (alerta) a call of alerta() made less than 3000 ms after
\* stateChangeTime leaves the state at 3; a poll made 3000 ms or more after it
\* leads to state 2 (eventos) for every lux.  The alarm tone and the blue LED
\* are pulsed in that step when lux > 700 or lux < 200, and nothing is pulsed
\* when 200 <= lux <= 700.
C12_AlertaReturnsToEventos ==
    [][ \A lux \in LuxReadings :
          AlertaOf(lux)
          => IF now - stateChangeTime < 3000
             THEN currentState' = 3
             ELSE /\ currentState' = 2
                  /\ (lux > 7000 \/ lux < 2000)
                       => {"alarmSound", "ledBlue"} \subseteq effects'
                  /\ (2000 <= lux /\ lux <= 7000) => effects' = {} ]_vars

\* alerta has ended on a light level inside 200..700: back in eventos with
\* only the heading on the display and nothing pulsed
C12_Witness ==
    /\ pc = "done"
    /\ currentState = 2
    /\ stateChangeTime = now
    /\ now = 3000
    /\ lcd.rows[1] = TXT_ALERTA
    /\ lcd.rows[2] = <<>>
    /\ effects = {}

\* the loop of alarma() polls a reading inside / outside the safe range
\* (a NaN is neither)
AlarmaPollInRange ==
    \E r \in DhtReadings, d \in Durations :
        InRange(r[1], r[2]) /\ AlarmaPollOf(r[1], r[2], d)

AlarmaPollOutOfRange ==
    \E r \in DhtReadings, d \in Durations :
        OutOfRange(r[1], r[2]) /\ AlarmaPollOf(r[1], r[2], d)

\* C13: alarma(), called in state 4 (alarma), leaves that state only for
\* state 1 (ambiental) and only on a poll of its loop whose reading has
\* 10 <= temp <= 40 and 5 <= humidity <= 60; a poll whose reading is out of
\* range leaves currentState at 4 with the red LED on.
C13_AlarmaLeavesOnlyOnInRangePoll ==
    /\ [][ ( /\ AlarmaEnter \/ AlarmaPoll
             /\ currentState = 4
             /\ currentState' # 4 )
            => (currentState' = 1 /\ AlarmaPollInRange) ]_vars
    /\ [][ AlarmaPollOutOfRange
            => (currentState' = 4 /\ ledRed' = "HIGH") ]_vars

\* inside the loop of alarma() after a poll that did not end it: state 4
\* still, the red LED on, the tone of the entry over
C13_Witness ==
    /\ pc = "alarma"
    /\ currentState = 4
    /\ ledRed = "HIGH"
    /\ effects = {}

\* C14: from the call of alarma() to the break of its loop no key is read:
\* the entry of alarma() and every poll leave inputPassword and attemptCount
\* unchanged, and while the loop runs every step is a poll of it.
C14_NoKeyHandledInAlarma ==
    /\ [][ (AlarmaEnter \/ AlarmaPoll)
            => UNCHANGED <<inputPassword, attemptCount>> ]_vars
    /\ [][ pc = "alarma" => AlarmaPoll ]_vars

\* alarma() has returned on an in-range poll, with the password and the two
\* failed attempts it was called with still held
C14_Witness ==
    /\ pc = "done"
    /\ lcd.rows[1] = TXT_CRITICA
    /\ inputPassword = CORRECT_PASSWORD
    /\ attemptCount = 2

\* C15: from each of the states 1 (ambiental), 2 (eventos) and 3 (alerta)
\* the program reaches state 4 (alarma), provided loop() keeps running and
\* time passes; this whatever the sensors read, so also when temperature and
\* humidity are out of range for ever (no step of loop() reads a sensor).
C15_OutOfRangeReachesAlarma ==
    (currentState \in {1, 2, 3}) ~> (currentState = 4)

\* the loop of alarma() polls a reading that is not inside the safe range
AlarmaPollNotInRange ==
    \E r \in DhtReadings, d \in Durations :
        ~InRange(r[1], r[2]) /\ AlarmaPollOf(r[1], r[2], d)

\* C16: if from some time on every reading polled by the loop of alarma()
\* is in range, then from every state in which alarma() is polling with
\* currentState = 4 (alarma) the program reaches a state with
\* currentState = 1 (ambiental) and the red LED off.  No key is needed: the
\* loop reads none.
C16_AlarmaRecovers ==
    (<>[][~AlarmaPollNotInRange]_vars)
        => ((currentState = 4 /\ pc = "alarma")
                ~> (currentState = 1 /\ ledRed = "LOW"))

\* alarma() has run and its loop has ended: ambiental again, the red LED off
\* and the display still showing the alarm
C16_Witness ==
    /\ pc = "done"
    /\ currentState = 1
    /\ stateChangeTime = now
    /\ ledRed = "LOW"
    /\ lcd.rows[1] = TXT_CRITICA

\* C17: while currentState is 0 (locked), the second line of the display
\* holds exactly as many '*' as inputPassword has characters, between 0 and
\* 4: also after '*', after a failed '#', and after keys pressed beyond the
\* fourth.
C17_MaskedDisplay ==
    currentState = 0
    => /\ Len(inputPassword) \in 0..4
       /\ Len(lcd.rows[2]) = Len(inputPassword)
       /\ \A i \in 1..Len(lcd.rows[2]) : lcd.rows[2][i] = "*"

\* locked, after a failed attempt, with four characters typed again
C17_Witness ==
    /\ pc = "key"
    /\ currentState = 0
    /\ attemptCount = 1
    /\ Len(inputPassword) = 4
    /\ lcd.rows[2] = <<"*", "*", "*", "*">>

\* C18: no function of the program takes currentState to 5 (infrarrojo) or
\* 6 (hall): every step that changes currentState, whether of the key
\* handler or of a monitoring handler, the infrared and the Hall handlers
\* included, ends in one of 0 (locked), 1 (ambiental), 2 (eventos),
\* 3 (alerta) and 4 (alarma).  The program starts in 0, so 5 and 6 are never
\* entered.
C18_InfrarrojoAndHallUnreachable ==
    [][ currentState' # currentState
        => currentState' \in {0, 1, 2, 3, 4} ]_vars

\* alerta, the last of the monitoring states on the way round, has just been
\* left for eventos by a call of alerta()
C18_Witness ==
    /\ pc = "done"
    /\ currentState = 2
    /\ stateChangeTime = now
    /\ now >= 3000
    /\ lcd.rows[1] = TXT_ALERTA

\* C19: while locked, '#' pressed with fewer than 4 characters typed (none,
\* or a proper prefix of the secret, or anything else) is a failed attempt:
\* the program stays locked, inputPassword is emptied, and attemptCount goes
\* up by 1, which at the third failure runs the lockout and leaves it at 0.
C19_ShortSubmitFails ==
    [][ ( /\ currentState = 0
          /\ Len(inputPassword) \in 0..3
          /\ KeyPressed("#") )
        => ( /\ currentState' = 0
             /\ inputPassword' = <<>>
             /\ attemptCount' = (IF attemptCount + 1 = 3 THEN 0
                                 ELSE attemptCount + 1)
             /\ (attemptCount + 1 = 3) => "alarmSound" \in effects' ) ]_vars

\* locked with the first three characters of the secret typed and two
\* failures counted, in which '#' can be pressed
C19_Witness ==
    /\ pc = "key"
    /\ currentState = 0
    /\ inputPassword = <<"0", "6", "9">>
    /\ attemptCount = 2
    /\ ENABLED KeyPressed("#")

\* C20: between the steps of loop() attemptCount is 0, 1 or 2; the value 3
\* is held only inside the handler of the third failed '#', which resets it
\* to 0 before it returns.
C20_AttemptCountBelowMax ==
    attemptCount \in {0, 1, 2}

\* the second failed attempt has just been counted and shown
C20_Witness ==
    /\ pc = "key"
    /\ attemptCount = 2
    /\ inputPassword = <<>>
    /\ lcd.rows[1] = TXT_ERROR \o <<"2">>

\* C21: once currentState is not 0 (locked) it is never 0 again: no step of
\* the program, whether a key, a sensor poll or the lockout, takes it from a
\* state other than 0 to 0.
C21_NeverLockedAgain ==
    [][ currentState # 0 => currentState' # 0 ]_vars

\* the lockout has just run in an unlocked state, and the state is still
\* unlocked
C21_Witness ==
    /\ pc = "done"
    /\ currentState # 0
    /\ effects = {"alarmSound", "ledRed"}
    /\ attemptCount = 0
    /\ inputPassword = <<>>

\* the unlock branch of loop() runs: '#' with the secret held; it assigns
\* currentState = 1 and stateChangeTime = millis() (lines 173-174)
UnlockBranchRuns ==
    /\ inputPassword = CORRECT_PASSWORD
    /\ \E d \in Durations : LoopOf("#", d) \/ KeyOf("#", d)

====
